---- MODULE Spec2Model ----
(***************************************************************************)
(* The PSA turnaround calculator of app.py: calculate_psa and its          *)
(* business-day stepping routine add_business_days.                        *)
(*                                                                         *)
(* A date is its proleptic Gregorian ordinal (datetime.date.toordinal()),  *)
(* so that date + timedelta(days=k) is integer addition and                *)
(* date.weekday() is (ordinal + 6) % 7 (0 = Monday .. 6 = Sunday).         *)
(* jpholiday.is_holiday is an external library: the holiday calendar is a  *)
(* set of dates fixed when the program starts, and is_holiday is           *)
(* membership in it.                                                       *)
(***************************************************************************)
EXTENDS Integers, FiniteSets, TLC

(* ---------------------------- bounds ---------------------------------- *)
\* First arrival date tried: 2024-01-05 (a Friday), as an ordinal.
FirstArrival == 738890
\* Arrival dates are FirstArrival .. FirstArrival + MaxArrival.
MaxArrival == 4
\* Holidays are drawn from the HolidaySpan + 1 dates starting at the
\* earliest processing start.
HolidaySpan == 4
\* At most this many holidays in a calendar.
MaxHolidays == 2
\* The holiday dataset has data for the dates up to
\* FirstArrival + CoveredDays and none after.
CoveredDays == 60
\* The stepping loop is followed for at most this many days past its start.
MaxAdvance == 100

(* ------------------------- program constants --------------------------- *)
\* return_date None: the ordinal no date has (date.min.toordinal() = 1).
None == 0

\* PSA_JAPAN_PLANS as written in the source.
DefaultPlans ==
    [ Value     |-> [business_days |-> 45, price |-> 3980],
      ValuePlus |-> [business_days |-> 20, price |-> 6980],
      Regular   |-> [business_days |-> 10, price |-> 9980],
      Express   |-> [business_days |-> 10, price |-> 16980] ]

\* Plan tables as the source could be configured: the table is a literal
\* bound at import with no validation, so any edited entry is accepted.
PlanTables ==
    { [DefaultPlans EXCEPT !.Regular.business_days = 0],
      [DefaultPlans EXCEPT !.Regular.business_days = -1],
      [DefaultPlans EXCEPT !.Express.price = -1] }

\* Plan names passed to calculate_psa: the four keys and two that are not.
PlanNames == {"Value", "ValuePlus", "Regular", "Express", "NotARealPlan", ""}

ArrivalDates == FirstArrival .. (FirstArrival + MaxArrival)

VARIABLES
    PSA_JAPAN_PLANS,   \* the module-level plan table
    holidays,          \* the dates jpholiday.is_holiday answers True for
    pc,                \* "idle" | "loop" | "done"
    arrival_date,      \* calculate_psa's argument
    plan_name,         \* calculate_psa's argument
    processing_start,  \* calculate_psa's local
    days_to_add,       \* add_business_days' argument (req_days)
    current_date,      \* add_business_days' local
    added_days,        \* add_business_days' local
    result,            \* value returned by the last completed call
    prev               \* history: one earlier completed call, for comparing

vars == <<PSA_JAPAN_PLANS, holidays, pc, arrival_date, plan_name,
          processing_start, days_to_add, current_date, added_days, result, prev>>

(* ----------------------------- helpers --------------------------------- *)
\* date.weekday()
Weekday(d) == (d + 6) % 7

\* current_date.weekday() >= 5
IsWeekend(d) == Weekday(d) >= 5

\* jpholiday.is_holiday(current_date); False for a date without data
IsHoliday(d) == d \in holidays

\* Variant of NextAdded that forgets the holiday test.
NextAddedNoHoliday(d, added) == IF ~IsWeekend(d) THEN added + 1 ELSE added
\* if not is_weekend and not is_holiday: added_days += 1
NextAdded(d, added) ==
    IF ~IsWeekend(d) /\ ~IsHoliday(d) THEN added + 1 ELSE added

\* Variant of LoopCond that runs the body once more (<= for <).
LoopCondAtMost(added, toAdd) == added <= toAdd
\* while added_days < days_to_add
LoopCond(added, toAdd) == added < toAdd

\* Variant of ProcessingStart with days=3 for weeks=3.
ProcessingStartDays(D) == D + 3
\* arrival_date + datetime.timedelta(weeks=3)
ProcessingStart(D) == D + 7 * 3

\* plan_name not in PSA_JAPAN_PLANS
IsRecognized(P) == P \in DOMAIN PSA_JAPAN_PLANS

\* Variant of NoQuote with a cost of -1.
NoQuoteMinusOne == [cost |-> -1, return_date |-> None]
\* {"cost": 0, "return_date": None}
NoQuote == [cost |-> 0, return_date |-> None]

\* Variant of Quote that reads the wrong field of the plan.
QuoteDays(P, d) == [cost |-> PSA_JAPAN_PLANS[P].business_days, return_date |-> d]
\* {"cost": PSA_JAPAN_PLANS[plan_name]["price"], "return_date": return_date}
Quote(P, d) == [cost |-> PSA_JAPAN_PLANS[P].price, return_date |-> d]

\* No value returned yet: a call is in progress, or none was made.
Pending == [cost |-> -1, return_date |-> -1]

\* The history variable's values: no history kept, none remembered yet, or
\* one completed call (its arguments, its result and the table it ran on).
HistOff == [k |-> "off", a |-> None, p |-> "", r |-> Pending, t |-> DefaultPlans]
HistEmpty == [k |-> "empty", a |-> None, p |-> "", r |-> Pending, t |-> DefaultPlans]

HolidayWindow == (FirstArrival + 21) .. (FirstArrival + 21 + HolidaySpan)

\* The holiday dataset has data for d.
HasHolidayData(d) == d <= FirstArrival + CoveredDays

(* ------------------------------ Init ----------------------------------- *)
InitCommon ==
    /\ holidays \in {H \in SUBSET HolidayWindow : Cardinality(H) <= MaxHolidays}
    /\ pc = "idle"
    /\ arrival_date = None
    /\ plan_name = ""
    /\ processing_start = None
    /\ days_to_add = 0
    /\ current_date = None
    /\ added_days = 0
    /\ result = Pending

Init ==
    /\ PSA_JAPAN_PLANS = DefaultPlans
    /\ prev = HistOff
    /\ InitCommon

InitHist ==
    /\ PSA_JAPAN_PLANS = DefaultPlans
    /\ prev = HistEmpty
    /\ InitCommon

InitCfg ==
    /\ PSA_JAPAN_PLANS \in PlanTables
    /\ prev = HistOff
    /\ InitCommon

(* ----------------------------- actions --------------------------------- *)
\* Variant of Enter that keeps the counter of the call before.
EnterStale(start_date, toAdd) ==
    /\ days_to_add' = toAdd
    /\ current_date' = start_date
    /\ added_days' = added_days
\* add_business_days entry: current_date = start_date; added_days = 0
Enter(start_date, toAdd) ==
    /\ days_to_add' = toAdd
    /\ current_date' = start_date
    /\ added_days' = 0

\* The history variable: when a call has completed, the next call may
\* remember it (when history is kept at all).
Remember ==
    prev' \in IF prev.k # "off" /\ pc = "done"
              THEN {prev, [k |-> "full", a |-> arrival_date, p |-> plan_name,
                           r |-> result, t |-> PSA_JAPAN_PLANS]}
              ELSE {prev}

calculate_psa(D, P) ==
    /\ pc \in {"idle", "done"}
    /\ arrival_date' = D
    /\ plan_name' = P
    /\ Remember
    /\ IF ~IsRecognized(P)
       THEN /\ result' = NoQuote
            /\ pc' = "done"
            /\ UNCHANGED <<processing_start, days_to_add, current_date, added_days>>
       ELSE /\ processing_start' = ProcessingStart(D)
            /\ Enter(ProcessingStart(D), PSA_JAPAN_PLANS[P].business_days)
            /\ result' = Pending
            /\ pc' = "loop"
    /\ UNCHANGED <<PSA_JAPAN_PLANS, holidays>>

Call == \E D \in ArrivalDates, P \in PlanNames : calculate_psa(D, P)

\* Variant of LoopStep that tests the date before advancing to the next.
LoopStepCountFirst ==
    /\ pc = "loop"
    /\ LoopCond(added_days, days_to_add)
    /\ current_date - processing_start < MaxAdvance
    /\ added_days' = NextAdded(current_date, added_days)
    /\ current_date' = current_date + 1
    /\ UNCHANGED <<PSA_JAPAN_PLANS, holidays, pc, arrival_date, plan_name,
                   processing_start, days_to_add, result, prev>>
\* Variant of LoopStep that never advances current_date.
LoopStepNoAdvance ==
    /\ pc = "loop"
    /\ LoopCond(added_days, days_to_add)
    /\ current_date - processing_start < MaxAdvance
    /\ current_date' = current_date
    /\ added_days' = NextAdded(current_date', added_days)
    /\ UNCHANGED <<PSA_JAPAN_PLANS, holidays, pc, arrival_date, plan_name,
                   processing_start, days_to_add, result, prev>>
\* One iteration of the while loop: advance a day, then count it if it is
\* neither a weekend day nor a holiday.
LoopStep ==
    /\ pc = "loop"
    /\ LoopCond(added_days, days_to_add)
    /\ current_date - processing_start < MaxAdvance
    /\ current_date' = current_date + 1
    /\ added_days' = NextAdded(current_date', added_days)
    /\ UNCHANGED <<PSA_JAPAN_PLANS, holidays, pc, arrival_date, plan_name,
                   processing_start, days_to_add, result, prev>>

\* Loop exit: return current_date, and calculate_psa returns the quote.
Return ==
    /\ pc = "loop"
    /\ ~LoopCond(added_days, days_to_add)
    /\ result' = Quote(plan_name, current_date)
    /\ pc' = "done"
    /\ UNCHANGED <<PSA_JAPAN_PLANS, holidays, arrival_date, plan_name,
                   processing_start, days_to_add, current_date, added_days, prev>>

Next == Call \/ LoopStep \/ Return

Spec == Init /\ [][Next]_vars
SpecHist == InitHist /\ [][Next]_vars
SpecCfg == InitCfg /\ [][Next]_vars
\* The interpreter runs a started call to its end.
FairSpec == Init /\ [][Next]_vars /\ WF_vars(LoopStep) /\ WF_vars(Return)

(* ------------------------------ claims --------------------------------- *)
\* A working date: Monday to Friday and not a holiday.
Working(d) == (d + 6) % 7 < 5 /\ d \notin holidays

\* The number of working dates in (from, to].
WorkingBetween(from, to) == Cardinality({d \in (from + 1) .. to : Working(d)})

Completed == pc = "done" /\ plan_name \in DOMAIN PSA_JAPAN_PLANS

\* C1: for a recognized plan with N required business days, the return date
\* is strictly after arrival + 21 days and exactly N working dates lie in
\* (arrival + 21 days, return date]; the arrival date and the offset date
\* are outside that interval and never counted.
C1_ExactBusinessDayCount ==
    Completed =>
        /\ result.return_date > arrival_date + 21
        /\ WorkingBetween(arrival_date + 21, result.return_date)
             = PSA_JAPAN_PLANS[plan_name].business_days

\* C1 witness: a completed quote whose interval holds a weekday holiday
\* and whose offset date is itself a working date.
C1_Witness ==
    /\ Completed
    /\ Working(arrival_date + 21)
    /\ \E h \in holidays :
          /\ h > arrival_date + 21
          /\ h < result.return_date
          /\ (h + 6) % 7 < 5

\* C2: a call with a plan name that is not a key of the plan table returns
\* {cost: 0, return_date: None} at once, and steps no date.
C2_UnknownPlanNoQuote ==
    [][(pc \in {"idle", "done"} /\ plan_name' \notin DOMAIN PSA_JAPAN_PLANS)
         => /\ pc' = "done"
            /\ result' = [cost |-> 0, return_date |-> 0]
            /\ UNCHANGED <<processing_start, days_to_add, current_date,
                           added_days>>]_vars

\* C2 witness: a call with an unknown plan name has returned, after an
\* earlier call had stepped dates.
C2_Witness ==
    /\ pc = "done"
    /\ plan_name = "NotARealPlan"
    /\ result = [cost |-> 0, return_date |-> 0]
    /\ current_date > 0

\* C3: the cost of a quote for a recognized plan is the plan's price:
\* Value 3980, ValuePlus 6980, Regular 9980, Express 16980.
C3_CostIsPlanPrice ==
    Completed =>
        result.cost = CASE plan_name = "Value" -> 3980
                        [] plan_name = "ValuePlus" -> 6980
                        [] plan_name = "Regular" -> 9980
                        [] plan_name = "Express" -> 16980

\* C3 witness: an Express quote has been returned with its price.
C3_Witness ==
    /\ Completed
    /\ plan_name = "Express"
    /\ result.cost = 16980
    /\ arrival_date > FirstArrival

\* C4: with 0 required business days the return date is arrival + 21 days
\* and no day was stepped, whatever kind of day that date is.
C4_ZeroDaysReturnsStart ==
    (Completed /\ PSA_JAPAN_PLANS[plan_name].business_days = 0) =>
        /\ result.return_date = arrival_date + 21
        /\ current_date = processing_start

\* C4 witness: a zero-day quote whose processing start is a Saturday that
\* is also a holiday.
C4_Witness ==
    /\ Completed
    /\ PSA_JAPAN_PLANS[plan_name].business_days = 0
    /\ result.return_date = arrival_date + 21
    /\ (arrival_date + 21 + 6) % 7 = 5
    /\ (arrival_date + 21) \in holidays

\* C5: a loop step increments the counter only for a date that is neither
\* Saturday/Sunday nor a holiday.
C5_CountsOnlyWorkingDates ==
    [][added_days' > added_days
         => /\ (current_date' + 6) % 7 < 5
            /\ current_date' \notin holidays]_vars

\* C5 witness: the loop stands on a holiday that falls on Monday to Friday.
C5_Witness ==
    /\ pc = "loop"
    /\ current_date > processing_start
    /\ current_date \in holidays
    /\ (current_date + 6) % 7 < 5

\* C6: no quote is returned once the loop has stepped onto a date for
\* which the holiday dataset has no data.
C6_NoQuoteWithoutHolidayData ==
    Completed =>
        \A d \in (processing_start + 1) .. result.return_date : HasHolidayData(d)

\* C7: a started stepping loop ends with a return date.
C7_LoopTerminates ==
    (pc = "loop") ~> (pc = "done" /\ result.return_date = current_date)

\* C7 witness: the longest plan's loop has ended with a return date.
C7_Witness ==
    /\ Completed
    /\ plan_name = "Value"
    /\ added_days = 45
    /\ result.return_date = current_date

\* C8: the calculator never runs on, nor returns a quote from, a plan
\* table entry with a negative business-day count or a negative price.
C8_NegativeEntryNeverQuoted ==
    (pc \in {"loop", "done"} /\ plan_name \in DOMAIN PSA_JAPAN_PLANS) =>
        /\ PSA_JAPAN_PLANS[plan_name].business_days >= 0
        /\ PSA_JAPAN_PLANS[plan_name].price >= 0

\* C9: a completed call returns what an earlier call with the same arrival
\* date and plan name returned, and the plan table is what it was then.
C9_SameInputsSameQuote ==
    (pc = "done" /\ prev.k = "full") =>
        /\ prev.t = PSA_JAPAN_PLANS
        /\ (prev.a = arrival_date /\ prev.p = plan_name) => result = prev.r

\* C9 witness: a recognized plan quoted a second time for the same date.
C9_Witness ==
    /\ Completed
    /\ prev.k = "full"
    /\ prev.a = arrival_date
    /\ prev.p = plan_name
    /\ prev.r = result
    /\ \E h \in holidays : h > arrival_date + 21 /\ h < result.return_date

\* C10: for N >= 1 the return date is a working date, and N working dates
\* have elapsed after the processing start at no earlier date.
C10_EarliestNthWorkingDate ==
    (Completed /\ PSA_JAPAN_PLANS[plan_name].business_days >= 1) =>
        /\ Working(result.return_date)
        /\ \A d \in (arrival_date + 22) .. (result.return_date - 1) :
              WorkingBetween(arrival_date + 21, d)
                < PSA_JAPAN_PLANS[plan_name].business_days

\* C10 witness: a quote whose return date is a Friday, the next date being
\* one the loop would have had to skip.
C10_Witness ==
    /\ Completed
    /\ Working(result.return_date)
    /\ ~Working(result.return_date + 1)
    /\ ~Working(arrival_date + 21)
====
